---- MODULE Spec2Model ----
(***************************************************************************)
(* SoundWaveFactory (src/hw_numpy.py): sine-wave synthesis for note names, *)
(* WAV / text persistence, waveform statistics and multi-wave              *)
(* normalisation, together with the __main__ driver.                       *)
(*                                                                         *)
(* Representation.                                                         *)
(*  - A Python str that the code formats or edits is a sequence of         *)
(*    one-character strings ("a#4" is <<"a","#","4">>).                     *)
(*  - A float64 is a fixed-point number: the integer count of 1/ONE units; *)
(*    a quotient of two floats is kept as an exact fraction <<num, den>>. *)
(*    An int16 is an integer in -32768..32767.                             *)
(*  - A numpy array is a record [dtype, ndim, data].                       *)
(*  - A time instant is an exact fraction <<num, den>> of a second.        *)
(*  - An optional argument is [some |-> FALSE, ...] for None.              *)
(***************************************************************************)
EXTENDS Integers, Sequences, FiniteSets, TLC

VARIABLES
    files,            \* the working directory: file name -> contents
    common_timeline,  \* SoundWaveFactory.common_timeline (class attribute)
    log,              \* file-system events in program order
    stdout,           \* lines printed so far
    call,             \* the method call under way / last made, with its arguments
    ret,              \* its outcome: returned value or raised exception
    ncalls,           \* number of calls made by the client
    pc,               \* position of the __main__ driver
    locals            \* the driver's variables a4, a1, a4_wave, a1_wave

vars == <<files, common_timeline, log, stdout, call, ret, ncalls, pc, locals>>

----------------------------------------------------------------------------
(* Class constants, src/hw_numpy.py:6-9.                                   *)

\* Stand-in for the value 44100 of SAMPLING_RATE: arrays of 220500 samples are
\* out of reach of explicit-state checking, so the rate is a bound of the
\* model.  Every derived quantity (SOUND_ARRAY_LEN, the rate of a WAV file, the
\* default of print_wave_details) is computed from SAMPLING_RATE as in the
\* source.
ModelRate == 4

SAMPLING_RATE == ModelRate
DURATION_SECONDS == 5
SOUND_ARRAY_LEN == SAMPLING_RATE * DURATION_SECONDS
\* The mutation of MAX_AMPLITUDE to 2 ** 14.
MAX_AMPLITUDE_14 == 2 ^ 14

MAX_AMPLITUDE == 2 ^ 13

\* float64 model: a float is a multiple of 1/ONE = 2^-ONE_BITS.
ONE_BITS == 1
ONE == 2 ^ ONE_BITS
\* The sine factor is computed in units of 1/SIN_ONE.
SIN_ONE == 2 ^ 16
\* Resolution of the phase of the sine model: steps per full turn.
PHASE_STEPS == 2 ^ 7

----------------------------------------------------------------------------
(* Python str values as character sequences.                               *)

S_sin_wav == <<"_", "s", "i", "n", ".", "w", "a", "v">>
S_wav == <<".", "w", "a", "v">>
S_txt == <<".", "t", "x", "t">>

\* str.replace(old, new) for one-character old and new: every occurrence.
Replace(s, old, new) == [i \in 1..Len(s) |-> IF s[i] = old THEN new ELSE s[i]]

None == [some |-> FALSE, v |-> <<>>]
Some(x) == [some |-> TRUE, v |-> x]

\* SoundWaveFactory.NOTES, src/hw_numpy.py:12-29: note name -> frequency in Hz,
\* each decimal literal as the exact fraction <<numerator, denominator>>.
NOTES ==
    <<"0">> :> <<0, 1>> @@ <<"e","0">> :> <<515043, 25000>> @@ <<"f","0">> :> <<545669, 25000>>
    @@ <<"f","#","0">> :> <<462493, 20000>> @@ <<"g","0">> :> <<2449971, 100000>> @@ <<"g","#","0">> :> <<1297827, 50000>>
    @@ <<"a","0">> :> <<55, 2>> @@ <<"a","#","0">> :> <<728381, 25000>> @@ <<"b","0">> :> <<3086771, 100000>>
    @@ <<"c","0">> :> <<40879, 1250>> @@ <<"c","#","0">> :> <<3464783, 100000>> @@ <<"d","0">> :> <<367081, 10000>>
    @@ <<"d","#","0">> :> <<3889087, 100000>> @@ <<"e","1">> :> <<515043, 12500>> @@ <<"f","1">> :> <<4365353, 100000>>
    @@ <<"f","#","1">> :> <<462493, 10000>> @@ <<"g","1">> :> <<4899943, 100000>> @@ <<"g","#","1">> :> <<5191309, 100000>>
    @@ <<"a","1">> :> <<55, 1>> @@ <<"a","#","1">> :> <<5827047, 100000>> @@ <<"b","1">> :> <<6173541, 100000>>
    @@ <<"c","1">> :> <<6540639, 100000>> @@ <<"c","#","1">> :> <<3464783, 50000>> @@ <<"d","1">> :> <<7341619, 100000>>
    @@ <<"d","#","1">> :> <<311127, 4000>> @@ <<"e","2">> :> <<8240689, 100000>> @@ <<"f","2">> :> <<4365353, 50000>>
    @@ <<"f","#","2">> :> <<9249861, 100000>> @@ <<"g","2">> :> <<4899943, 50000>> @@ <<"g","#","2">> :> <<519131, 5000>>
    @@ <<"a","2">> :> <<110, 1>> @@ <<"a","#","2">> :> <<1165409, 10000>> @@ <<"b","2">> :> <<308677, 2500>>
    @@ <<"c","2">> :> <<81758, 625>> @@ <<"c","#","2">> :> <<1385913, 10000>> @@ <<"d","2">> :> <<367081, 2500>>
    @@ <<"d","#","2">> :> <<311127, 2000>> @@ <<"e","3">> :> <<824069, 5000>> @@ <<"f","3">> :> <<1746141, 10000>>
    @@ <<"f","#","3">> :> <<462493, 2500>> @@ <<"g","3">> :> <<1959977, 10000>> @@ <<"g","#","3">> :> <<2076523, 10000>>
    @@ <<"a","3">> :> <<220, 1>> @@ <<"a","#","3">> :> <<2330819, 10000>> @@ <<"b","3">> :> <<2469417, 10000>>
    @@ <<"c","3">> :> <<163516, 625>> @@ <<"c","#","3">> :> <<1385913, 5000>> @@ <<"d","3">> :> <<367081, 1250>>
    @@ <<"d","#","3">> :> <<311127, 1000>> @@ <<"e","4">> :> <<824069, 2500>> @@ <<"f","4">> :> <<1746141, 5000>>
    @@ <<"f","#","4">> :> <<462493, 1250>> @@ <<"g","4">> :> <<1959977, 5000>> @@ <<"g","#","4">> :> <<4153047, 10000>>
    @@ <<"a","4">> :> <<440, 1>> @@ <<"a","#","4">> :> <<2330819, 5000>> @@ <<"b","4">> :> <<4938833, 10000>>
    @@ <<"c","4">> :> <<5232511, 10000>> @@ <<"c","#","4">> :> <<5543653, 10000>> @@ <<"d","4">> :> <<1174659, 2000>>
    @@ <<"d","#","4">> :> <<311127, 500>> @@ <<"e","5">> :> <<6592551, 10000>> @@ <<"f","5">> :> <<1396913, 2000>>
    @@ <<"f","#","5">> :> <<462493, 625>> @@ <<"g","5">> :> <<7839909, 10000>> @@ <<"g","#","5">> :> <<4153047, 5000>>
    @@ <<"a","5">> :> <<880, 1>> @@ <<"a","#","5">> :> <<372931, 400>> @@ <<"b","5">> :> <<4938833, 5000>>
    @@ <<"c","5">> :> <<523251, 500>> @@ <<"c","#","5">> :> <<1108731, 1000>> @@ <<"d","5">> :> <<1174659, 1000>>
    @@ <<"d","#","5">> :> <<311127, 250>> @@ <<"e","6">> :> <<131851, 100>> @@ <<"f","6">> :> <<1396913, 1000>>
    @@ <<"f","#","6">> :> <<739989, 500>> @@ <<"g","6">> :> <<783991, 500>> @@ <<"g","#","6">> :> <<1661219, 1000>>
    @@ <<"a","6">> :> <<1760, 1>> @@ <<"a","#","6">> :> <<372931, 200>> @@ <<"b","6">> :> <<1975533, 1000>>
    @@ <<"c","6">> :> <<418601, 200>> @@ <<"c","#","6">> :> <<2217461, 1000>> @@ <<"d","6">> :> <<1174659, 500>>
    @@ <<"d","#","6">> :> <<311127, 125>> @@ <<"e","7">> :> <<131851, 50>> @@ <<"f","7">> :> <<1396913, 500>>
    @@ <<"f","#","7">> :> <<591991, 200>> @@ <<"g","7">> :> <<3135963, 1000>> @@ <<"g","#","7">> :> <<1661219, 500>>
    @@ <<"a","7">> :> <<3520, 1>> @@ <<"a","#","7">> :> <<372931, 100>> @@ <<"b","7">> :> <<1975533, 500>>
    @@ <<"c","7">> :> <<4186009, 1000>> @@ <<"c","#","7">> :> <<2217461, 500>> @@ <<"d","7">> :> <<1174659, 250>>
    @@ <<"d","#","7">> :> <<622254, 125>>

----------------------------------------------------------------------------
(* Arithmetic helpers.                                                     *)

Abs(x) == IF x < 0 THEN -x ELSE x
Min2(a, b) == IF a <= b THEN a ELSE b

RECURSIVE Gcd(_, _)
Gcd(a, b) == IF b = 0 THEN a ELSE Gcd(b, a % b)

RECURSIVE SeqSum(_)
SeqSum(s) == IF s = <<>> THEN 0 ELSE s[1] + SeqSum(Tail(s))

SeqMin(s) == CHOOSE x \in {s[i] : i \in DOMAIN s} : \A i \in DOMAIN s : x <= s[i]
SeqMax(s) == CHOOSE x \in {s[i] : i \in DOMAIN s} : \A i \in DOMAIN s : x >= s[i]

\* Division toward zero, as C and numpy casts truncate.
TruncDiv(a, b) == IF a >= 0 THEN a \div b ELSE -((-a) \div b)

----------------------------------------------------------------------------
(* numpy arrays and dtype conversion.                                      *)

Array(dtype, data) == [dtype |-> dtype, ndim |-> 1, data |-> data]

\* int16 arithmetic wraps in two's complement.
WrapInt16(x) == ((x + 2 ^ 15) % 2 ^ 16) - 2 ^ 15

\* One element of ndarray.astype(np.int16): a float64 is truncated toward
\* zero, an int16 is kept.  (The cast of a float outside the int16 range is
\* not defined; no array of this model holds one.)
CastInt16(dtype, x) == IF dtype = "int16" THEN x ELSE TruncDiv(x, ONE)

\* ndarray.astype(np.int16)
astype_int16(a) ==
    [dtype |-> "int16", ndim |-> a.ndim,
     data |-> [i \in 1..Len(a.data) |-> CastInt16(a.dtype, a.data[i])]]

\* One element converted to float64 (what '%e' formatting and np.mean do).
AsFloat(dtype, x) == IF dtype = "int16" THEN x * ONE ELSE x

----------------------------------------------------------------------------
(* Timelines and the sine wave.                                            *)

\* np.linspace(start = 0, stop, num): num instants k * stop / (num - 1).
linspace(stop, num) == [k \in 1..num |-> <<stop * (k - 1), num - 1>>]

\* Bhaskara's rational approximation of sin(pi * p / q) for 0 <= p <= q, in
\* units of 1/SIN_ONE.  It is exact at 0, at the quarter turn (SIN_ONE) and at
\* the half turn, and within 0.2% elsewhere.
HalfWave(p, q) == (16 * p * (q - p) * SIN_ONE) \div (5 * q * q - 4 * p * (q - p))

\* np.sin(2 * np.pi * turns) for turns = n / d with 0 <= n < d, in units of
\* 1/SIN_ONE.  float64 sin returns exactly +-1.0 only at (the float nearest to) an
\* odd quarter turn; everywhere else its magnitude is below 1.0.
SinTurns(n, d) ==
    LET half == PHASE_STEPS \div 2
        idx == (n * PHASE_STEPS) \div d
    IN  IF 4 * n = d THEN SIN_ONE
        ELSE IF 4 * n = 3 * d THEN -SIN_ONE
        ELSE IF idx < half THEN Min2(HalfWave(idx, half), SIN_ONE - 1)
        ELSE -Min2(HalfWave(idx - half, half), SIN_ONE - 1)

\* One sample of get_normed_sin: MAX_AMPLITUDE * sin(2 pi frequency t), for the
\* instant t = <<num, den>> and the frequency <<num, den>>, in units of 1/ONE.
NormedSinAt(t, frequency) ==
    LET d == frequency[2] * t[2]
        n == (frequency[1] * t[1]) % d
    IN  TruncDiv(MAX_AMPLITUDE * SinTurns(n, d), SIN_ONE \div ONE)

\* The mutation of get_normed_sin that drops the last instant (timeline[:-1]).
get_normed_sin_short(timeline, frequency) ==
    Array("float64", [i \in 1..(Len(timeline) - 1) |-> NormedSinAt(timeline[i], frequency)])

\* SoundWaveFactory.get_normed_sin(timeline, frequency): a float64 array with
\* one sample per instant of the timeline.
get_normed_sin(timeline, frequency) ==
    Array("float64", [i \in 1..Len(timeline) |-> NormedSinAt(timeline[i], frequency)])
----------------------------------------------------------------------------
(* Call outcomes and the file system.                                      *)

Return(v) == [status |-> "ok", value |-> v]
Raise(exc) == [status |-> exc, value |-> <<>>]

\* What a call does: its outcome, the files after it, and the file-system
\* events and output lines it adds.
Outcome(r, fs, events, out) == [ret |-> r, files |-> fs, events |-> events, out |-> out]

WriteEvent(file_name) == [op |-> "write", file |-> file_name]
ReadEvent(file_name) == [op |-> "read", file |-> file_name]

\* Creating or overwriting one file.
WriteFile(fs, file_name, content) ==
    [f \in DOMAIN fs \cup {file_name} |-> IF f = file_name THEN content ELSE fs[f]]

\* scipy.io.wavfile.write(file_name, rate, data) for a 1-D int16 array: a mono
\* 16-bit PCM file holding the samples.
WavFile(rate, a) ==
    [kind |-> "wav", rate |-> rate, channels |-> 1, bits |-> 16, data |-> a.data]

----------------------------------------------------------------------------
(* get_soundwave and create_note.                                          *)

\* The mutation of get_soundwave that looks the note up with NOTES.get(note, 0):
\* an unknown note gives silence.
get_soundwave_default(timeline, note) ==
    Return(get_normed_sin(timeline, IF note \in DOMAIN NOTES THEN NOTES[note] ELSE <<0, 1>>))

\* SoundWaveFactory.get_soundwave(timeline, note); NOTES[note] raises KeyError
\* for a note that is no key of NOTES.
get_soundwave(timeline, note) ==
    IF note \in DOMAIN NOTES
    THEN Return(get_normed_sin(timeline, NOTES[note]))
    ELSE Raise("KeyError")

\* The mutation of create_note_file_name that tests `if not name`: an empty
\* name takes the default file name.
create_note_file_name_falsy(note, name) ==
    IF ~name.some \/ name.v = <<>>
    THEN Replace(note \o S_sin_wav, "#", "s")
    ELSE name.v \o S_wav

\* The file name create_note writes to: f"{note}_sin.wav".replace("#", "s") when
\* name is None, f"{name}.wav" otherwise.
create_note_file_name(note, name) ==
    IF ~name.some
    THEN Replace(note \o S_sin_wav, "#", "s")
    ELSE name.v \o S_wav

\* SoundWaveFactory.create_note(note, name, timeline) called with the files fs
\* and the class attribute default_timeline.
create_note(fs, default_timeline, note, name, timeline) ==
    LET tl == IF ~timeline.some THEN default_timeline ELSE timeline.v
        wave == get_soundwave(tl, note)
    IN  IF wave.status # "ok"
        THEN Outcome(wave, fs, <<>>, <<>>)
        ELSE LET sound_wave == astype_int16(wave.value)
                 file_name == create_note_file_name(note, name)
             IN  Outcome(Return(sound_wave),
                         WriteFile(fs, file_name, WavFile(SAMPLING_RATE, sound_wave)),
                         <<WriteEvent(file_name)>>, <<>>)
----------------------------------------------------------------------------
(* Text files: np.savetxt writes one number per line in the format '%.18e' *)
(* and np.loadtxt parses the lines back.  A line d.ddd...de+XX is the      *)
(* record [neg, digits, exp] of its sign, 19 significant digits, exponent. *)

\* '%.18e': one digit before the point and 18 after it.
SIG_DIGITS == 1 + 18
\* Decimal digits that write any multiple of 1/ONE exactly.
FRAC_DIGITS == ONE_BITS
\* Extra binary precision carried while parsing a decimal fraction.
GUARD == 2 ^ 10

Zeros(n) == [i \in 1..n |-> 0]

RECURSIVE IntDigits(_)
IntDigits(i) == IF i = 0 THEN <<>> ELSE IntDigits(i \div 10) \o <<i % 10>>

\* The first n decimal digits of the fraction r / ONE.
RECURSIVE FracDigits(_, _)
FracDigits(r, n) ==
    IF n = 0 THEN <<>>
    ELSE <<(r * 10) \div ONE>> \o FracDigits((r * 10) % ONE, n - 1)

\* A digit string plus one in its last place; a carry out of the first digit
\* lengthens it by one.
RECURSIVE IncDigits(_)
IncDigits(d) ==
    IF d = <<>> THEN <<1>>
    ELSE IF d[Len(d)] = 9 THEN IncDigits(SubSeq(d, 1, Len(d) - 1)) \o <<0>>
    ELSE [d EXCEPT ![Len(d)] = @ + 1]

\* '%.18e' % x for the float64 x: the exact decimal expansion rounded to 19
\* significant digits, ties to even.
FormatE(x) ==
    IF x = 0 THEN [neg |-> FALSE, digits |-> Zeros(SIG_DIGITS), exp |-> 0]
    ELSE
    LET a == Abs(x)
        ipart == IntDigits(a \div ONE)
        all == ipart \o FracDigits(a % ONE, FRAC_DIGITS)
        lead == CHOOSE i \in 1..Len(all) : all[i] # 0 /\ \A j \in 1..(i - 1) : all[j] = 0
        sig == SubSeq(all, lead, Len(all)) \o Zeros(SIG_DIGITS)
        kept == SubSeq(sig, 1, SIG_DIGITS)
        rest == SubSeq(sig, SIG_DIGITS + 1, Len(sig))
        up == \/ rest[1] > 5
              \/ /\ rest[1] = 5
                 /\ \/ \E j \in 2..Len(rest) : rest[j] # 0
                    \/ kept[SIG_DIGITS] % 2 = 1
        rounded == IF up THEN IncDigits(kept) ELSE kept
        carry == IF Len(rounded) > SIG_DIGITS THEN 1 ELSE 0
    IN  [neg |-> x < 0,
         digits |-> SubSeq(rounded, 1, SIG_DIGITS),
         exp |-> Len(ipart) - lead + carry]

RECURSIVE DigitsValue(_)
DigitsValue(d) == IF d = <<>> THEN 0 ELSE DigitsValue(SubSeq(d, 1, Len(d) - 1)) * 10 + d[Len(d)]

\* The decimal fraction 0.d1 d2 ... in units of 1/(ONE * GUARD), rounded down.
RECURSIVE FracUnits(_)
FracUnits(d) == IF d = <<>> THEN 0 ELSE (d[1] * ONE * GUARD + FracUnits(Tail(d))) \div 10

\* float(line): the float64 nearest to the decimal number of a line.
ParseE(line) ==
    LET shifted == IF line.exp >= 0 THEN line.digits \o Zeros(line.exp)
                   ELSE Zeros(-line.exp - 1) \o line.digits
        nint == IF line.exp >= 0 THEN line.exp + 1 ELSE 0
        mag == DigitsValue(SubSeq(shifted, 1, nint)) * ONE
               + (FracUnits(SubSeq(shifted, nint + 1, Len(shifted))) + GUARD \div 2) \div GUARD
    IN  IF line.neg THEN -mag ELSE mag

TxtFile(lines) == [kind |-> "txt", lines |-> lines]

\* np.savetxt(file_name, wave) for a 1-D array: each sample as float, one per line.
savetxt(a) == TxtFile([i \in 1..Len(a.data) |-> FormatE(AsFloat(a.dtype, a.data[i]))])

\* np.loadtxt(path): a float64 array of the parsed lines; a file of a single
\* number comes back as a 0-dimensional array (loadtxt squeezes, ndmin = 0).
loadtxt(fs, path) ==
    IF path \notin DOMAIN fs THEN Raise("FileNotFoundError")
    ELSE IF fs[path].kind # "txt" THEN Raise("ValueError")
    ELSE LET lines == fs[path].lines
         IN  Return([dtype |-> "float64",
                     ndim |-> IF Len(lines) = 1 THEN 0 ELSE 1,
                     data |-> [i \in 1..Len(lines) |-> ParseE(lines[i])]])

\* SoundWaveFactory.read_wave_from_txt(file_path)
read_wave_from_txt(fs, file_path) ==
    LET r == loadtxt(fs, file_path)
    IN  Outcome(r, fs, IF file_path \in DOMAIN fs THEN <<ReadEvent(file_path)>> ELSE <<>>, <<>>)

\* The mutation of save_wave that compares file_type.upper() with "WAV".
save_wave_upper(fs, wave, file_name, file_type) ==
    IF file_type \in {"WAV", "wav", "Wav"}
    THEN Outcome(Return(None),
                 WriteFile(fs, file_name \o S_wav, WavFile(SAMPLING_RATE, astype_int16(wave))),
                 <<WriteEvent(file_name \o S_wav)>>, <<>>)
    ELSE Outcome(Return(None),
                 WriteFile(fs, file_name \o S_txt, savetxt(wave)),
                 <<WriteEvent(file_name \o S_txt)>>, <<>>)

\* SoundWaveFactory.save_wave(wave, file_name, file_type)
save_wave(fs, wave, file_name, file_type) ==
    IF file_type = "WAV"
    THEN Outcome(Return(None),
                 WriteFile(fs, file_name \o S_wav, WavFile(SAMPLING_RATE, astype_int16(wave))),
                 <<WriteEvent(file_name \o S_wav)>>, <<>>)
    ELSE Outcome(Return(None),
                 WriteFile(fs, file_name \o S_txt, savetxt(wave)),
                 <<WriteEvent(file_name \o S_txt)>>, <<>>)
----------------------------------------------------------------------------
(* Exact fractions: the value num / den as the reduced pair <<num, den>>   *)
(* with den > 0.  A float division by zero gives <<0, 0>> (nan) for 0/0    *)
(* and <<1, 0>> or <<-1, 0>> (inf, -inf) otherwise.                        *)

NaN == <<0, 0>>

\* The mutation of Frac that guards the division: a zero divisor gives 0.
Frac_guarded(num, den) ==
    IF den = 0 THEN <<0, 1>>
    ELSE LET g == Gcd(Abs(num), Abs(den))
             s == IF den < 0 THEN -1 ELSE 1
         IN  <<s * (num \div g), s * (den \div g)>>

Frac(num, den) ==
    IF den = 0 THEN (IF num = 0 THEN NaN ELSE IF num > 0 THEN <<1, 0>> ELSE <<-1, 0>>)
    ELSE LET g == Gcd(Abs(num), Abs(den))
             s == IF den < 0 THEN -1 ELSE 1
         IN  <<s * (num \div g), s * (den \div g)>>

\* Largest r with r * r <= x, by bisection on lo..hi.
RECURSIVE ISqrtIn(_, _, _)
ISqrtIn(x, lo, hi) ==
    IF lo = hi THEN lo
    ELSE LET mid == (lo + hi + 1) \div 2
         IN  IF mid * mid <= x THEN ISqrtIn(x, mid, hi) ELSE ISqrtIn(x, lo, mid - 1)

ISqrt(x) == ISqrtIn(x, 0, 2 ^ 15)

----------------------------------------------------------------------------
(* print_wave_details.                                                     *)

Line(label, value) == [label |-> label, value |-> value]

\* The samples of an array as floats.
Floats(a) == [i \in 1..Len(a.data) |-> AsFloat(a.dtype, a.data[i])]

\* np.mean of the floats xs, exact.
Mean(xs) == Frac(SeqSum(xs), Len(xs) * ONE)

\* np.std of the floats xs (population standard deviation), rounded down to a
\* multiple of 1/ONE.  With n = Len(xs), S = sum x = m n + s and
\* x_i^2 = q_i n + r_i, the variance sum x^2 / n - (S / n)^2 is
\* (sum q_i - m^2) + (n sum r_i - 2 m s n - s^2) / n^2; the split keeps every
\* intermediate value small.
Std(xs) ==
    LET n == Len(xs)
        S == SeqSum(xs)
        m == S \div n
        s == S % n
        Q == SeqSum([i \in 1..n |-> (xs[i] * xs[i]) \div n])
        R == SeqSum([i \in 1..n |-> (xs[i] * xs[i]) % n])
        var == (Q - m * m) + ((n * R - 2 * m * s * n - s * s) \div (n * n))
    IN  Frac(ISqrt(var), ONE)

\* The mutation of effective_rate that tests `sampling_rate is None`.
effective_rate_is_none(sampling_rate) ==
    IF ~sampling_rate.some THEN SAMPLING_RATE ELSE sampling_rate.v

\* if not sampling_rate: sampling_rate = self.SAMPLING_RATE
\* (`not` holds for None and for 0).
effective_rate(sampling_rate) ==
    IF ~sampling_rate.some \/ sampling_rate.v = 0 THEN SAMPLING_RATE ELSE sampling_rate.v

\* SoundWaveFactory.print_wave_details(wave, sampling_rate).  len() of a
\* 0-dimensional array raises TypeError, a division by the int 0 raises
\* ZeroDivisionError and np.min of an empty array raises ValueError, each
\* before the first print.
print_wave_details(fs, wave, sampling_rate) ==
    LET rate == effective_rate(sampling_rate)
        xs == Floats(wave)
    IN  IF wave.ndim = 0 THEN Outcome(Raise("TypeError"), fs, <<>>, <<>>)
        ELSE IF rate = 0 THEN Outcome(Raise("ZeroDivisionError"), fs, <<>>, <<>>)
        ELSE IF Len(wave.data) = 0 THEN Outcome(Raise("ValueError"), fs, <<>>, <<>>)
        ELSE Outcome(Return(None), fs, <<>>,
                 << Line("Duration", Frac(Len(wave.data), rate)),
                    Line("Min Amplitude", Frac(SeqMin(xs), ONE)),
                    Line("Max Amplitude", Frac(SeqMax(xs), ONE)),
                    Line("Mean Amplitude", Mean(xs)),
                    Line("Standard Deviation", Std(xs)),
                    Line("Wave Length", Frac(Len(wave.data), 1)) >>)

----------------------------------------------------------------------------
(* normalize_waves.                                                        *)

Trim(a, n) == [a EXCEPT !.data = SubSeq(a.data, 1, n)]

\* All samples of a sequence of arrays, as one sequence.
RECURSIVE Flatten(_)
Flatten(ws) == IF ws = <<>> THEN <<>> ELSE Head(ws).data \o Flatten(Tail(ws))

\* min([len(wave) for wave in waves])
min_length(waves) == SeqMin([i \in DOMAIN waves |-> Len(waves[i].data)])

\* The mutation of trim_waves that keeps every sample.
trim_waves_all(waves, n) == waves

\* [wave[:min_length_wave] for wave in waves]
trim_waves(waves, n) == [i \in DOMAIN waves |-> Trim(waves[i], n)]

\* np.min / np.max take the list as one stacked array: it is int16 when every
\* array is int16 and float64 otherwise.
StackDtype(ws) == IF \A i \in DOMAIN ws : ws[i].dtype = "int16" THEN "int16" ELSE "float64"
Stacked(ws) ==
    IF StackDtype(ws) = "int16" THEN Flatten(ws)
    ELSE Flatten([i \in DOMAIN ws |-> Array("float64", Floats(ws[i]))])

\* np.min(trimmed_waves), np.max(trimmed_waves)
min_amplitude(trimmed_waves) == SeqMin(Stacked(trimmed_waves))
max_amplitude(trimmed_waves) == SeqMax(Stacked(trimmed_waves))

\* a - b for an array element or scalar a and a numpy scalar b of the stacked
\* dtype: int16 operands stay int16 and wrap; otherwise the result is float64.
Subtract(dtype_a, a, dtype_b, b) ==
    IF dtype_a = "int16" /\ dtype_b = "int16" THEN WrapInt16(a - b)
    ELSE AsFloat(dtype_a, a) - b

\* SoundWaveFactory.normalize_waves(*waves).  min() of no lengths and np.min of
\* an empty array raise ValueError; len() of a 0-dimensional array raises
\* TypeError.  The division is a float64 division: dividing by zero raises
\* nothing and gives nan or inf.  The quotients are kept as exact fractions.
normalize_waves(waves) ==
    IF waves = <<>> THEN Raise("ValueError")
    ELSE IF \E i \in DOMAIN waves : waves[i].ndim = 0 THEN Raise("TypeError")
    ELSE
    LET min_length_wave == min_length(waves)
        trimmed_waves == trim_waves(waves, min_length_wave)
    IN  IF Stacked(trimmed_waves) = <<>> THEN Raise("ValueError")
        ELSE
        LET dt == StackDtype(trimmed_waves)
            mn == min_amplitude(trimmed_waves)
            mx == max_amplitude(trimmed_waves)
        IN  Return([i \in DOMAIN trimmed_waves |->
                      [dtype |-> "float64", ndim |-> 1,
                       data |-> [k \in DOMAIN trimmed_waves[i].data |->
                           Frac(Subtract(trimmed_waves[i].dtype, trimmed_waves[i].data[k], dt, mn),
                                Subtract(dt, mx, dt, mn))]]])
----------------------------------------------------------------------------
(* Bounds and the arguments the calls are made with.                       *)

MaxCalls == 1   \* calls a client makes in one run
MaxWaves == 2   \* arrays passed to normalize_waves
MaxLen == 2     \* samples of an enumerated array

N_0 == <<"0">>
N_a1 == <<"a", "1">>
N_a4 == <<"a", "4">>
N_as4 == <<"a", "#", "4">>
N_z9 == <<"z", "9">>

F_x == <<"x">>
F_a1_sin == <<"a", "1", "_", "s", "i", "n">>
F_a1_wave == <<"a", "1", "_", "w", "a", "v", "e">>
F_a4_wave == <<"a", "4", "_", "w", "a", "v", "e">>
F_a4_wave_as_wav == <<"a", "4", "_", "w", "a", "v", "e", "_", "a", "s", "_", "w", "a", "v">>
F_notes_txt == <<"n", "o", "t", "e", "s", ".", "t", "x", "t">>

\* Note arguments: valid keys (silence, plain, sharp) and a name that is no key.
CallNotes == {N_0, N_a1, N_a4, N_as4, N_z9}
CallNames == {None, Some(<<>>), Some(F_x), Some(N_as4)}

\* Custom timelines: empty, the quarter period of a1 (1/220 s), and a mix that
\* also holds the three-quarter period of a1 and the quarter period of a4.
CustomTimelines ==
    { <<>>,
      << <<1, 220>> >>,
      << <<0, 1>>, <<1, 220>>, <<3, 220>>, <<1, 1760>> >> }
CallTimelines == {None} \cup {Some(t) : t \in CustomTimelines}

\* Arrays handed to save_wave: floats with and without a fractional part
\* (1.5, -8191.5, 0.0, 8192.0), int16 samples, and an empty array.
SaveWaves ==
    { Array("float64", <<3, -16383, 0, 16384>>),
      Array("float64", <<-5>>),
      Array("int16", <<8192, -1>>),
      Array("float64", <<>>) }
SaveNames == {F_x, F_a1_sin}
FileTypes == {"WAV", "wav", "txt", "TXT"}

ReadPaths == {F_x \o S_txt, F_x \o S_wav, F_a1_sin \o S_txt, F_notes_txt}

\* Sample values of enumerated arrays: -1.5, 0.0 and 8192.0 as floats, and
\* loud 16-bit audio samples -30000, 0 and 30000 as int16.
FloatSamples == {-3, 0, 16384}
IntSamples == {-30000, 0, 30000}
SeqsUpTo(S, n) == UNION {[1..l -> S] : l \in 0..n}
EnumWaves ==
    {Array("float64", d) : d \in SeqsUpTo(FloatSamples, MaxLen)}
    \cup {Array("int16", d) : d \in SeqsUpTo(IntSamples, MaxLen)}

\* Files that may exist before the program runs.
StaleWav == WavFile(8000, Array("int16", <<7, 7>>))
StaleTxt == savetxt(Array("float64", <<3, -16383, 0>>))
OneLineTxt == savetxt(Array("float64", <<-5>>))

EmptyFS == [f \in {} |-> StaleTxt]
InitialFiles ==
    { EmptyFS,
      WriteFile(WriteFile(EmptyFS, F_x \o S_txt, StaleTxt), F_a1_sin \o S_wav, StaleWav),
      WriteFile(WriteFile(EmptyFS, F_x \o S_txt, OneLineTxt), F_x \o S_wav, StaleWav) }

----------------------------------------------------------------------------
(* The client: one method call per step.                                   *)

Pending == [status |-> "pending", value |-> <<>>]
NoCall == [op |-> "none"]
NoLocals == [a4 |-> <<>>, a1 |-> <<>>, a4_wave |-> <<>>, a1_wave |-> <<>>]

\* The class body: common_timeline = np.linspace(0, DURATION_SECONDS, num=SOUND_ARRAY_LEN)
ClassInit == common_timeline = linspace(DURATION_SECONDS, SOUND_ARRAY_LEN)

Init ==
    /\ ClassInit
    /\ files \in InitialFiles
    /\ log = <<>>
    /\ stdout = <<>>
    /\ call = NoCall
    /\ ret = Pending
    /\ ncalls = 0
    /\ pc = "idle"
    /\ locals = NoLocals

\* The effect of a completed call c with outcome o.
Completes(c, o) ==
    /\ call' = c
    /\ ret' = o.ret
    /\ files' = o.files
    /\ log' = log \o o.events
    /\ stdout' = stdout \o o.out
    /\ ncalls' = ncalls + 1
    /\ UNCHANGED <<common_timeline, pc, locals>>

CreateNote ==
    /\ ncalls < MaxCalls
    /\ \E note \in CallNotes, name \in CallNames, timeline \in CallTimelines :
          Completes([op |-> "create_note", note |-> note, name |-> name, timeline |-> timeline],
                    create_note(files, common_timeline, note, name, timeline))

GetSoundwave ==
    /\ ncalls < MaxCalls
    /\ \E note \in CallNotes, timeline \in CustomTimelines \cup {common_timeline} :
          Completes([op |-> "get_soundwave", note |-> note, timeline |-> timeline],
                    Outcome(get_soundwave(timeline, note), files, <<>>, <<>>))

SaveWave ==
    /\ ncalls < MaxCalls
    /\ \E wave \in SaveWaves, file_name \in SaveNames, file_type \in FileTypes :
          Completes([op |-> "save_wave", wave |-> wave, file_name |-> file_name,
                     file_type |-> file_type],
                    save_wave(files, wave, file_name, file_type))

ReadWaveFromTxt ==
    /\ ncalls < MaxCalls
    /\ \E file_path \in ReadPaths :
          Completes([op |-> "read_wave_from_txt", file_path |-> file_path],
                    read_wave_from_txt(files, file_path))

Next == CreateNote \/ GetSoundwave \/ SaveWave \/ ReadWaveFromTxt

Spec == Init /\ [][Next]_vars

----------------------------------------------------------------------------
(* normalize_waves and print_wave_details as pure functions: the arguments *)
(* are drawn in the initial state and one step applies the method.         *)

NormInputs == UNION {[1..n -> EnumWaves] : n \in 0..MaxWaves}

InitNorm ==
    /\ ClassInit
    /\ files = EmptyFS
    /\ log = <<>>
    /\ stdout = <<>>
    /\ call \in {[op |-> "normalize_waves", waves |-> ws] : ws \in NormInputs}
    /\ ret = Pending
    /\ ncalls = 0
    /\ pc = "idle"
    /\ locals = NoLocals

NormalizeWaves ==
    /\ call.op = "normalize_waves"
    /\ ncalls = 0
    /\ Completes(call, Outcome(normalize_waves(call.waves), files, <<>>, <<>>))

SpecNorm == InitNorm /\ [][NormalizeWaves]_vars

\* The int16 array create_note returns for a note on the default timeline.
DefaultWave(note) ==
    astype_int16(get_normed_sin(linspace(DURATION_SECONDS, SOUND_ARRAY_LEN), NOTES[note]))

\* Arrays handed to print_wave_details: short arrays of either dtype with
\* samples in the range create_note produces, full-length waves, and a
\* 0-dimensional array as np.loadtxt returns for a one-line file.
AmplitudeSamples == {-MAX_AMPLITUDE, 0, MAX_AMPLITUDE - 1}
PrintWaves ==
    {Array("float64", d) : d \in SeqsUpTo(FloatSamples, MaxLen)}
    \cup {Array("int16", d) : d \in SeqsUpTo(AmplitudeSamples, MaxLen)}
    \cup {DefaultWave(N_a4), DefaultWave(N_0)}
    \cup {[dtype |-> "float64", ndim |-> 0, data |-> <<-5>>]}
PrintRates == {None, Some(0), Some(1), Some(3), Some(SAMPLING_RATE), Some(2 * SAMPLING_RATE)}

InitPrint ==
    /\ ClassInit
    /\ files = EmptyFS
    /\ log = <<>>
    /\ stdout = <<>>
    /\ call \in {[op |-> "print_wave_details", wave |-> w, sampling_rate |-> r] :
                    w \in PrintWaves, r \in PrintRates}
    /\ ret = Pending
    /\ ncalls = 0
    /\ pc = "idle"
    /\ locals = NoLocals

PrintWaveDetails ==
    /\ call.op = "print_wave_details"
    /\ ncalls = 0
    /\ Completes(call, print_wave_details(files, call.wave, call.sampling_rate))

SpecPrint == InitPrint /\ [][PrintWaveDetails]_vars

----------------------------------------------------------------------------
(* The __main__ driver, src/hw_numpy.py:86-102, one statement per step.    *)

\* Each file the driver writes, and one it does not, may be left over from an
\* earlier run.
MainFileNames ==
    { N_a4 \o S_sin_wav, N_a1 \o S_sin_wav, F_a1_wave \o S_txt, F_a4_wave \o S_txt,
      F_a4_wave_as_wav \o S_wav, F_notes_txt }
Leftover(f) == IF f[Len(f)] = "v" THEN StaleWav ELSE StaleTxt

InitMain ==
    /\ ClassInit
    /\ \E present \in SUBSET MainFileNames : files = [f \in present |-> Leftover(f)]
    /\ log = <<>>
    /\ stdout = <<>>
    /\ call = NoCall
    /\ ret = Pending
    /\ ncalls = 0
    /\ pc = "create_a4"
    /\ locals = NoLocals

\* One statement of the driver: the call's effects happen; an exception ends
\* the program, otherwise control moves on with the locals updated.
Statement(at, o, next, new_locals) ==
    /\ pc = at
    /\ files' = o.files
    /\ log' = log \o o.events
    /\ stdout' = stdout \o o.out
    /\ ret' = o.ret
    /\ pc' = IF o.ret.status = "ok" THEN next ELSE "raised"
    /\ locals' = IF o.ret.status = "ok" THEN new_locals ELSE locals
    /\ UNCHANGED <<common_timeline, call, ncalls>>

\* a4 = sw_factory.create_note()
MainCreateA4 ==
    LET o == create_note(files, common_timeline, N_a4, None, None)
    IN  Statement("create_a4", o, "create_a1", [locals EXCEPT !.a4 = o.ret.value])

\* a1 = sw_factory.create_note(note='a1')
MainCreateA1 ==
    LET o == create_note(files, common_timeline, N_a1, None, None)
    IN  Statement("create_a1", o, "save_a1", [locals EXCEPT !.a1 = o.ret.value])

\* sw_factory.save_wave(a1, 'a1_wave', 'txt')
MainSaveA1 ==
    Statement("save_a1", save_wave(files, locals.a1, F_a1_wave, "txt"), "save_a4", locals)

\* sw_factory.save_wave(a4, 'a4_wave', 'txt')
MainSaveA4 ==
    Statement("save_a4", save_wave(files, locals.a4, F_a4_wave, "txt"), "read_a1", locals)

\* The mutation of MainReadA1 that reads a4_wave.txt into a4_wave.
MainReadA1_unswapped ==
    LET o == read_wave_from_txt(files, F_a4_wave \o S_txt)
    IN  Statement("read_a1", o, "read_a4", [locals EXCEPT !.a4_wave = o.ret.value])

\* a4_wave = sw_factory.read_wave_from_txt('a1_wave.txt')
MainReadA1 ==
    LET o == read_wave_from_txt(files, F_a1_wave \o S_txt)
    IN  Statement("read_a1", o, "read_a4", [locals EXCEPT !.a4_wave = o.ret.value])

\* a1_wave = sw_factory.read_wave_from_txt('a4_wave.txt')
MainReadA4 ==
    LET o == read_wave_from_txt(files, F_a4_wave \o S_txt)
    IN  Statement("read_a4", o, "print_a4_wave", [locals EXCEPT !.a1_wave = o.ret.value])

\* sw_factory.print_wave_details(a4_wave)
MainPrintA4Wave ==
    Statement("print_a4_wave", print_wave_details(files, locals.a4_wave, None),
              "print_a1_wave", locals)

\* sw_factory.print_wave_details(a1_wave)
MainPrintA1Wave ==
    Statement("print_a1_wave", print_wave_details(files, locals.a1_wave, None),
              "normalize", locals)

\* print(sw_factory.normalize_waves(a1_wave, a4_wave))
MainNormalize ==
    LET r == normalize_waves(<<locals.a1_wave, locals.a4_wave>>)
    IN  Statement("normalize",
                  Outcome(r, files, <<>>,
                          IF r.status = "ok" THEN <<Line("print", r.value)>> ELSE <<>>),
                  "save_as_wav", locals)

\* sw_factory.save_wave(a4_wave, 'a4_wave_as_wav', 'WAV')
MainSaveAsWav ==
    Statement("save_as_wav", save_wave(files, locals.a4_wave, F_a4_wave_as_wav, "WAV"),
              "done", locals)

NextMain ==
    \/ MainCreateA4 \/ MainCreateA1
    \/ MainSaveA1 \/ MainSaveA4
    \/ MainReadA1 \/ MainReadA4
    \/ MainPrintA4Wave \/ MainPrintA1Wave
    \/ MainNormalize
    \/ MainSaveAsWav

SpecMain == InitMain /\ [][NextMain]_vars

----------------------------------------------------------------------------
(* Properties.                                                             *)

\* The call just made by the client was `op`.
Made(op) == call.op = op /\ ncalls >= 1

\* Restatements used by the properties of normalize_waves: the shortest input
\* length, the retained samples (index <= that length) as floats, and the
\* inputs cropped to that length.
ShortestLen(ws) ==
    CHOOSE m \in {Len(ws[i].data) : i \in DOMAIN ws} : \A i \in DOMAIN ws : m <= Len(ws[i].data)
FloatAt(ws, i, k) == IF ws[i].dtype = "int16" THEN ws[i].data[k] * ONE ELSE ws[i].data[k]
Retained(ws) == {FloatAt(ws, i, k) : i \in DOMAIN ws, k \in 1..ShortestLen(ws)}
Lowest(S) == CHOOSE x \in S : \A y \in S : x <= y
Highest(S) == CHOOSE x \in S : \A y \in S : x >= y
Cropped(ws) == [i \in DOMAIN ws |-> [ws[i] EXCEPT !.data = SubSeq(@, 1, ShortestLen(ws))]]

\* The difference a - b of two samples given as floats, as the arrays ws
\* compute it: in wrapping int16 when every array is int16, else in float64.
DiffIn(ws, a, b) ==
    IF \A i \in DOMAIN ws : ws[i].dtype = "int16"
    THEN (((a - b) \div ONE + 2 ^ 15) % 2 ^ 16) - 2 ^ 15
    ELSE a - b
\* The quotient n / d (d # 0) in lowest terms with a positive denominator.
Quotient(n, d) ==
    LET g == Gcd(Abs(n), Abs(d))
    IN  IF d > 0 THEN <<n \div g, d \div g>> ELSE <<(-n) \div g, (-d) \div g>>

\* C1: normalize_waves of n >= 1 arrays whose retained samples are not all one
\* value returns n arrays in input order, each of the shortest input length;
\* output i at index k is (input i at index k - min) / (max - min) for the min
\* and max of the retained samples; and the result is the one computed from
\* the inputs cropped to the shortest length, so no sample at or beyond that
\* length has any influence.
C1_NormalizeCropsToShortest ==
    (Made("normalize_waves") /\ call.waves # <<>> /\ Cardinality(Retained(call.waves)) >= 2) =>
        LET ws == call.waves
            m == ShortestLen(ws)
            lo == Lowest(Retained(ws))
            hi == Highest(Retained(ws))
        IN  /\ ret.status = "ok"
            /\ Len(ret.value) = Len(ws)
            /\ \A i \in DOMAIN ws :
                  /\ Len(ret.value[i].data) = m
                  /\ \A k \in 1..m :
                        ret.value[i].data[k]
                           = Quotient(DiffIn(ws, FloatAt(ws, i, k), lo), DiffIn(ws, hi, lo))
            /\ ret = normalize_waves(Cropped(ws))

\* C1 witness: two inputs of different lengths, where a cropped-off sample lies
\* above every retained sample.
C1_Witness ==
    /\ Made("normalize_waves") /\ Len(call.waves) = 2 /\ ret.status = "ok"
    /\ Cardinality(Retained(call.waves)) >= 2
    /\ \E i \in DOMAIN call.waves :
          /\ Len(call.waves[i].data) > ShortestLen(call.waves)
          /\ FloatAt(call.waves, i, ShortestLen(call.waves) + 1) > Highest(Retained(call.waves))

\* C2: when the retained samples have minimum < maximum, every output sample
\* lies in [0, 1], a sample equal to the minimum over all inputs maps to 0 and
\* a sample equal to the maximum over all inputs maps to 1.
C2_NormalizeSharedRange ==
    (Made("normalize_waves") /\ call.waves # <<>> /\ ShortestLen(call.waves) >= 1
       /\ Lowest(Retained(call.waves)) < Highest(Retained(call.waves))) =>
        /\ ret.status = "ok"
        /\ \A i \in DOMAIN call.waves : \A k \in 1..ShortestLen(call.waves) :
              LET y == ret.value[i].data[k]
                  x == FloatAt(call.waves, i, k)
              IN  /\ y[2] > 0 /\ 0 <= y[1] /\ y[1] <= y[2]
                  /\ (x = Lowest(Retained(call.waves)) => y = <<0, 1>>)
                  /\ (x = Highest(Retained(call.waves)) => y = <<1, 1>>)

\* The retained samples exist and are all one value.
Degenerate(ws) == ws # <<>> /\ ShortestLen(ws) >= 1 /\ Cardinality(Retained(ws)) = 1

\* C3 as stated: when all retained samples are one value the call raises a
\* zero-division error and returns nothing.
C3_DegenerateRaises ==
    (Made("normalize_waves") /\ Degenerate(call.waves)) => ret.status = "ZeroDivisionError"

\* C3 amended: when all retained samples are one value the call raises nothing
\* and returns one array per input, of the shortest input length, whose every
\* sample is nan.
C3_DegenerateReturnsNaN ==
    (Made("normalize_waves") /\ Degenerate(call.waves)) =>
        /\ ret.status = "ok"
        /\ Len(ret.value) = Len(call.waves)
        /\ \A i \in DOMAIN call.waves :
              /\ Len(ret.value[i].data) = ShortestLen(call.waves)
              /\ \A k \in 1..ShortestLen(call.waves) : ret.value[i].data[k] = <<0, 0>>

\* C3 witness: two constant inputs with the same value have been normalised.
C3_Witness ==
    /\ Made("normalize_waves") /\ Degenerate(call.waves) /\ Len(call.waves) = 2
    /\ ret.status = "ok"

\* C4: get_soundwave and create_note with a note that is no key of NOTES raise
\* KeyError, and the files (and the record of file operations) are exactly as
\* before the call, whatever name or timeline was passed.
C4_UnknownNoteWritesNothing ==
    [][ (/\ ncalls' = ncalls + 1
         /\ call'.op \in {"create_note", "get_soundwave"}
         /\ call'.note \notin DOMAIN NOTES)
        => (ret'.status = "KeyError" /\ files' = files /\ log' = log) ]_vars

\* C4 witness: create_note for "z9" with a name and a custom timeline has
\* failed in a directory that holds files.
C4_Witness ==
    /\ Made("create_note") /\ call.note = N_z9 /\ call.name.some /\ call.timeline.some
    /\ ret.status = "KeyError"
    /\ DOMAIN files # {}

\* C5: for a valid note, get_soundwave returns as many samples as its timeline
\* has, create_note returns and writes as many samples as the timeline it used
\* (the custom one, else the default of SAMPLING_RATE * DURATION_SECONDS
\* instants), and the default timeline is always the one built by the class.
C5_LengthIsTimelineLength ==
    /\ common_timeline = linspace(DURATION_SECONDS, SOUND_ARRAY_LEN)
    /\ Len(common_timeline) = SAMPLING_RATE * DURATION_SECONDS
    /\ (Made("get_soundwave") /\ call.note \in DOMAIN NOTES) =>
          /\ ret.status = "ok"
          /\ Len(ret.value.data) = Len(call.timeline)
    /\ (Made("create_note") /\ call.note \in DOMAIN NOTES) =>
          /\ ret.status = "ok"
          /\ Len(ret.value.data) =
                IF call.timeline.some THEN Len(call.timeline.v)
                ELSE SAMPLING_RATE * DURATION_SECONDS
          /\ log # <<>>
          /\ log[Len(log)].op = "write"
          /\ files[log[Len(log)].file].kind = "wav"
          /\ files[log[Len(log)].file].data = ret.value.data

\* C5 witness: create_note without a timeline has returned a full-length wave.
C5_Witness ==
    /\ Made("create_note") /\ ~call.timeline.some /\ ret.status = "ok"
    /\ Len(ret.value.data) = SAMPLING_RATE * DURATION_SECONDS
    /\ Len(common_timeline) = Len(ret.value.data)

\* C6 as stated: every sample create_note returns lies in [-8192, 8191].
C6_QuantizedBelowAmplitude ==
    (Made("create_note") /\ ret.status = "ok") =>
        \A k \in DOMAIN ret.value.data :
            -(2 ^ 13) <= ret.value.data[k] /\ ret.value.data[k] <= 2 ^ 13 - 1

\* C6 amended: every sample create_note returns lies in [-8192, 8192]; both
\* ends are reached where the sine is exactly -1 or 1.
C6_QuantizedWithinAmplitude ==
    (Made("create_note") /\ ret.status = "ok") =>
        \A k \in DOMAIN ret.value.data :
            -(2 ^ 13) <= ret.value.data[k] /\ ret.value.data[k] <= 2 ^ 13

\* C6 witness: create_note has returned a wave holding both 8192 and -8192.
C6_Witness ==
    /\ Made("create_note") /\ ret.status = "ok"
    /\ \E k \in DOMAIN ret.value.data : ret.value.data[k] = 2 ^ 13
    /\ \E k \in DOMAIN ret.value.data : ret.value.data[k] = -(2 ^ 13)

\* The file save_wave must write, and a float truncated toward zero.
SaveTarget(c) == c.file_name \o (IF c.file_type = "WAV" THEN S_wav ELSE S_txt)
Truncated(x) == IF x >= 0 THEN x \div ONE ELSE -((-x) \div ONE)

\* C7: save_wave raises nothing and writes exactly one file.  With file_type
\* "WAV" it is <file_name>.wav, a WAV file at SAMPLING_RATE holding the samples
\* truncated to int16; with any other file_type it is <file_name>.txt, one
\* line per sample that reads back as the unquantized sample.  Every other
\* file is as it was before the call.
C7_SaveWaveWritesOneFile ==
    [][ (ncalls' = ncalls + 1 /\ call'.op = "save_wave") =>
          LET c == call'
              target == SaveTarget(c)
              n == Len(c.wave.data)
          IN  /\ ret'.status = "ok"
              /\ log' = log \o <<[op |-> "write", file |-> target]>>
              /\ DOMAIN files' = DOMAIN files \cup {target}
              /\ \A f \in DOMAIN files' \ {target} : files'[f] = files[f]
              /\ IF c.file_type = "WAV"
                 THEN /\ files'[target].kind = "wav"
                      /\ files'[target].rate = SAMPLING_RATE
                      /\ Len(files'[target].data) = n
                      /\ \A k \in 1..n :
                            files'[target].data[k] =
                               IF c.wave.dtype = "int16" THEN c.wave.data[k]
                               ELSE Truncated(c.wave.data[k])
                 ELSE /\ files'[target].kind = "txt"
                      /\ Len(files'[target].lines) = n
                      /\ \A k \in 1..n :
                            ParseE(files'[target].lines[k]) =
                               IF c.wave.dtype = "int16" THEN c.wave.data[k] * ONE
                               ELSE c.wave.data[k] ]_vars

\* C7 witness: save_wave with file_type "wav" has written a1_sin.txt with the
\* fractional samples and has left the existing a1_sin.wav alone.
C7_Witness ==
    /\ Made("save_wave") /\ call.file_type = "wav" /\ call.file_name = F_a1_sin
    /\ call.wave = Array("float64", <<3, -16383, 0, 16384>>)
    /\ (F_a1_sin \o S_txt) \in DOMAIN files
    /\ Len(files[F_a1_sin \o S_txt].lines) = 4
    /\ (F_a1_sin \o S_wav) \in DOMAIN files
    /\ files[F_a1_sin \o S_wav] = StaleWav

\* '#' replaced by 's', restated.
Sharpless(s) == [i \in DOMAIN s |-> IF s[i] = "#" THEN "s" ELSE s[i]]

\* C8: create_note writes <name>.wav, the name verbatim, when a name is given,
\* and otherwise <note>_sin.wav with every '#' replaced by 's' ("a#4" gives
\* as4_sin.wav); the default file name of a valid note holds no '#', and
\* distinct valid notes have distinct default file names.
C8_CreateNoteFileName ==
    /\ (Made("create_note") /\ ret.status = "ok") =>
          LET expected == IF call.name.some THEN call.name.v \o S_wav
                          ELSE Sharpless(call.note) \o S_sin_wav
          IN  /\ log # <<>>
              /\ log[Len(log)] = [op |-> "write", file |-> expected]
              /\ expected \in DOMAIN files
              /\ files[expected].kind = "wav"
              /\ files[expected].data = ret.value.data
    /\ create_note_file_name(N_as4, None)
          = <<"a", "s", "4", "_", "s", "i", "n", ".", "w", "a", "v">>
    /\ \A n \in DOMAIN NOTES :
          \A i \in DOMAIN create_note_file_name(n, None) :
              create_note_file_name(n, None)[i] # "#"
    /\ Cardinality({create_note_file_name(n, None) : n \in DOMAIN NOTES})
          = Cardinality(DOMAIN NOTES)

\* C8 witness: create_note for "a#4" without a name has written as4_sin.wav.
C8_Witness ==
    /\ Made("create_note") /\ call.note = N_as4 /\ ~call.name.some /\ ret.status = "ok"
    /\ <<"a", "s", "4", "_", "s", "i", "n", ".", "w", "a", "v">> \in DOMAIN files
    /\ log[Len(log)].file = <<"a", "s", "4", "_", "s", "i", "n", ".", "w", "a", "v">>

\* C9: print_wave_details never fails on a division by zero; for a non-empty
\* 1-D wave it prints six lines labelled Duration, Min Amplitude, Max
\* Amplitude, Mean Amplitude, Standard Deviation, Wave Length, in that order;
\* the duration is the sample count divided by the given rate, or by
\* SAMPLING_RATE when the rate is None or 0, which is DURATION_SECONDS for a
\* wave of SAMPLING_RATE * DURATION_SECONDS samples.
C9_PrintWaveDetails ==
    Made("print_wave_details") =>
        /\ ret.status # "ZeroDivisionError"
        /\ (call.wave.ndim = 1 /\ call.wave.data # <<>>) =>
             LET n == Len(call.wave.data)
                 rate == IF call.sampling_rate.some /\ call.sampling_rate.v # 0
                         THEN call.sampling_rate.v ELSE SAMPLING_RATE
             IN  /\ ret.status = "ok"
                 /\ [i \in 1..Len(stdout) |-> stdout[i].label]
                       = <<"Duration", "Min Amplitude", "Max Amplitude", "Mean Amplitude",
                           "Standard Deviation", "Wave Length">>
                 /\ stdout[1].value[2] > 0
                 /\ stdout[1].value[1] * rate = n * stdout[1].value[2]
                 /\ stdout[6].value = <<n, 1>>
                 /\ (n = SAMPLING_RATE * DURATION_SECONDS /\ rate = SAMPLING_RATE)
                       => stdout[1].value = <<DURATION_SECONDS, 1>>

\* C9 witness: the details of a full-length wave have been printed for the
\* sampling rate 0, with the duration DURATION_SECONDS.
C9_Witness ==
    /\ Made("print_wave_details") /\ call.sampling_rate = Some(0)
    /\ Len(call.wave.data) = SAMPLING_RATE * DURATION_SECONDS
    /\ ret.status = "ok"
    /\ Len(stdout) = 6
    /\ stdout[1] = [label |-> "Duration", value |-> <<DURATION_SECONDS, 1>>]

\* The file operations of the driver, in order.
DriverLog ==
    << [op |-> "write", file |-> N_a4 \o S_sin_wav],
       [op |-> "write", file |-> N_a1 \o S_sin_wav],
       [op |-> "write", file |-> F_a1_wave \o S_txt],
       [op |-> "write", file |-> F_a4_wave \o S_txt],
       [op |-> "read", file |-> F_a1_wave \o S_txt],
       [op |-> "read", file |-> F_a4_wave \o S_txt],
       [op |-> "write", file |-> F_a4_wave_as_wav \o S_wav] >>

\* C10: the driver raises nothing; its file operations are, in order, the
\* writes of a4_sin.wav, a1_sin.wav, a1_wave.txt, a4_wave.txt, the reads of
\* a1_wave.txt and a4_wave.txt, and the write of a4_wave_as_wav.wav; when it
\* is done, a4_wave_as_wav.wav holds the samples of a1_sin.wav (note a1) and
\* not those of a4_sin.wav.
C10_DriverWritesA1AsA4 ==
    /\ pc # "raised"
    /\ Len(log) <= Len(DriverLog)
    /\ log = SubSeq(DriverLog, 1, Len(log))
    /\ pc = "done" =>
          /\ log = DriverLog
          /\ files[F_a4_wave_as_wav \o S_wav].kind = "wav"
          /\ files[F_a4_wave_as_wav \o S_wav].data = files[N_a1 \o S_sin_wav].data
          /\ files[F_a4_wave_as_wav \o S_wav].data # files[N_a4 \o S_sin_wav].data
          /\ files[N_a1 \o S_sin_wav].data = locals.a1.data
          /\ files[N_a4 \o S_sin_wav].data = locals.a4.data

\* C10 witness: the driver is done in a directory that held other files, and
\* has printed both reports and the normalised pair.
C10_Witness ==
    /\ pc = "done"
    /\ F_notes_txt \in DOMAIN files
    /\ Len(stdout) = 13
    /\ locals.a4_wave.data = [k \in DOMAIN locals.a1.data |-> locals.a1.data[k] * ONE]
====
